---- MODULE Spec2Model ----
(***************************************************************************)
(* Task Store (TaskService), filter state, the computed bucket lists of    *)
(* the board (TasksComponent) and the drag-and-drop handler, together with *)
(* the HTTP task repository they talk to.                                  *)
(***************************************************************************)
EXTENDS Integers, Sequences, FiniteSets, TLC

\* ------------------------------------------------------------------------
\* Bounds of the exploration
\* ------------------------------------------------------------------------
MaxCalls == 3
MaxInFlight == 2
MaxLen == 2

\* ------------------------------------------------------------------------
\* Values
\* ------------------------------------------------------------------------
Undefined == "undefined"
Null == "null"
NoId == <<"none", 0>>

TaskStatus == {"todo", "in_progress", "done"}
TaskPriority == {"low", "medium", "high"}

\* The characters of a text value (strings are opaque to the checker).
Letters(s) ==
  CASE s = "" -> <<>>
    [] s = "a" -> <<"a">>
    [] s = "A" -> <<"A">>
    [] s = "b" -> <<"b">>
    [] s = "Ab" -> <<"A", "b">>
    [] s = "bA" -> <<"b", "A">>
    [] OTHER -> <<"?">>

\* String.prototype.toLowerCase, character by character.
toLowerCase(cs) ==
  [i \in DOMAIN cs |-> IF cs[i] = "A" THEN "a" ELSE IF cs[i] = "B" THEN "b" ELSE cs[i]]

\* String.prototype.includes: sub occurs in cs as a contiguous run.
includes(cs, sub) ==
  \E k \in 0..(Len(cs) - Len(sub)) : SubSeq(cs, k + 1, k + Len(sub)) = sub

\* The predicate of the search filter: title OR description contains the
\* lower-cased query.
MatchesSearch(task, searchLower) ==
  \/ includes(toLowerCase(Letters(task.title)), searchLower)
  \/ includes(toLowerCase(Letters(task.description)), searchLower)

Ids(ts) == {ts[i].id : i \in DOMAIN ts}

\* Array.prototype.filter
Filter(ts, P(_)) == SelectSeq(ts, P)

\* ------------------------------------------------------------------------
\* The backing store the application is started against
\* ------------------------------------------------------------------------
users ==
  << [id |-> "user-001", name |-> "John Doe", avatar |-> "JD", email |-> "john.doe@company.com"],
     [id |-> "user-002", name |-> "Sarah Smith", avatar |-> "SS", email |-> "sarah.smith@company.com"],
     [id |-> "user-003", name |-> "Mike Johnson", avatar |-> "MJ", email |-> "mike.johnson@company.com"],
     [id |-> "user-004", name |-> "Emily Davis", avatar |-> "ED", email |-> "emily.davis@company.com"] >>

\* getUserById falling back to the last user of the list.
getUserByIdOrLast(userId) ==
  IF \E k \in DOMAIN users : users[k].id = userId
    THEN users[CHOOSE k \in DOMAIN users : users[k].id = userId]
    ELSE users[Len(users)]

\* users.find((u) => u.id === userId) || users[0]
getUserById(userId) ==
  IF \E k \in DOMAIN users : users[k].id = userId
    THEN users[CHOOSE k \in DOMAIN users :
                 /\ users[k].id = userId
                 /\ \A j \in DOMAIN users : users[j].id = userId => k <= j]
    ELSE users[1]

\* A task as the application is started against it.  A task that was never
\* completed has no completedAt property.
SeedTasks ==
  << [id |-> <<"seed", 1>>, title |-> "A", description |-> "b", status |-> "todo",
      priority |-> "high", assignee |-> users[1], createdAt |-> 0, updatedAt |-> 0],
     [id |-> <<"seed", 2>>, title |-> "b", description |-> "b", status |-> "done",
      priority |-> "low", assignee |-> users[2], createdAt |-> 0, updatedAt |-> 0,
      completedAt |-> "2025-01-01"] >>

VARIABLES
  tasks,          \* TaskService.tasksSignal
  loading,        \* TaskService.loadingSignal
  error,          \* TaskService.errorSignal
  statusFilter,   \* TasksComponent.statusFilter
  priorityFilter, \* TasksComponent.priorityFilter
  searchQuery,    \* SearchService.searchQuerySignal
  board,          \* the arrays held by todoTasks / inProgressTasks / doneTasks
  db,             \* the repository's task list
  net,            \* every HTTP request issued so far, by issue order
  mounted,        \* ngOnInit has run
  cont,           \* subscriber callback still to run in the current handler
  last,           \* the last call or response the service handled
  clock,          \* the local wall clock a card is rendered at
  overdue         \* <<what TaskCardComponent.isOverdue returned>>, <<>> before

vars == <<tasks, loading, error, statusFilter, priorityFilter, searchQuery,
          board, db, net, mounted, cont, last, clock, overdue>>

\* ------------------------------------------------------------------------
\* JavaScript objects are functions from property names to values
\* ------------------------------------------------------------------------
\* obj[f], undefined when the property is absent
Get(obj, f) == IF f \in DOMAIN obj THEN obj[f] ELSE Undefined

Restrict(obj, S) == [f \in S |-> obj[f]]

\* { ...a, ...b }: the properties of b override those of a
Spread(a, b) == b @@ a

\* ------------------------------------------------------------------------
\* TasksComponent: the computed signals
\* ------------------------------------------------------------------------
\* filteredTasks leaving the status test out when a priority is selected.
filteredTasksStatusOrPriority(allTasks, status, priority, query) ==
  LET search == toLowerCase(Letters(query))
      s1 == IF status # "all" /\ priority = "all"
              THEN Filter(allTasks, LAMBDA task : task.status = status)
              ELSE allTasks
      s2 == IF priority # "all"
              THEN Filter(s1, LAMBDA task : task.priority = priority)
              ELSE s1
  IN  IF search # <<>>
        THEN Filter(s2, LAMBDA task : MatchesSearch(task, search))
        ELSE s2

\* filteredTasks with the priority test in an else branch of the status test.
filteredTasksElseIf(allTasks, status, priority, query) ==
  LET search == toLowerCase(Letters(query))
      s2 == IF status # "all"
              THEN Filter(allTasks, LAMBDA task : task.status = status)
              ELSE IF priority # "all"
                THEN Filter(allTasks, LAMBDA task : task.priority = priority)
                ELSE allTasks
  IN  IF search # <<>>
        THEN Filter(s2, LAMBDA task : MatchesSearch(task, search))
        ELSE s2

filteredTasks(allTasks, status, priority, query) ==
  LET search == toLowerCase(Letters(query))
      s1 == IF status # "all"
              THEN Filter(allTasks, LAMBDA task : task.status = status)
              ELSE allTasks
      s2 == IF priority # "all"
              THEN Filter(s1, LAMBDA task : task.priority = priority)
              ELSE s1
  IN  IF search # <<>>
        THEN Filter(s2, LAMBDA task : MatchesSearch(task, search))
        ELSE s2

\* todoTasks listing the newest first.
todoTasksReversed(allTasks, status, priority, query) ==
  LET todo == Filter(filteredTasks(allTasks, status, priority, query),
                     LAMBDA task : task.status = "todo")
  IN  [k \in DOMAIN todo |-> todo[Len(todo) + 1 - k]]

todoTasks(allTasks, status, priority, query) ==
  Filter(filteredTasks(allTasks, status, priority, query),
         LAMBDA task : task.status = "todo")

\* inProgressTasks taking every task that is not done.
inProgressTasksNotDone(allTasks, status, priority, query) ==
  Filter(filteredTasks(allTasks, status, priority, query),
         LAMBDA task : task.status # "done")

inProgressTasks(allTasks, status, priority, query) ==
  Filter(filteredTasks(allTasks, status, priority, query),
         LAMBDA task : task.status = "in_progress")

doneTasks(allTasks, status, priority, query) ==
  Filter(filteredTasks(allTasks, status, priority, query),
         LAMBDA task : task.status = "done")

\* Buckets with every column listing its tasks last to first.
BucketsLastFirst(allTasks, status, priority, query) ==
  LET reversed(xs) == [k \in DOMAIN xs |-> xs[Len(xs) + 1 - k]]
  IN  [todo |-> reversed(todoTasks(allTasks, status, priority, query)),
       in_progress |-> reversed(inProgressTasks(allTasks, status, priority, query)),
       done |-> reversed(doneTasks(allTasks, status, priority, query))]

\* The three arrays the board is given once the computed signals have
\* re-evaluated.
Buckets(allTasks, status, priority, query) ==
  [todo |-> todoTasks(allTasks, status, priority, query),
   in_progress |-> inProgressTasks(allTasks, status, priority, query),
   done |-> doneTasks(allTasks, status, priority, query)]

\* ------------------------------------------------------------------------
\* TaskService: the state it owns, and what each operation does to it
\* ------------------------------------------------------------------------
Store == [tasks |-> tasks, loading |-> loading, error |-> error]

\* The first two statements of getTasks, createTask, updateTask, deleteTask.
OnEntry(store) == [store EXCEPT !.loading = TRUE, !.error = Null]

\* A request that has been answered and handled.
Done ==
  [op |-> "done", id |-> NoId, body |-> <<>>, search |-> "", origin |-> "",
   st |-> "done", code |-> 0, resp |-> <<>>, racedWith |-> 0]

Request(op, id, body, search, origin) ==
  [op |-> op, id |-> id, body |-> body, search |-> search, origin |-> origin,
   st |-> "sent", code |-> 0, resp |-> <<>>, racedWith |-> 0]

\* The query parameters getTasks sends.
getTasksParams(filter) ==
  LET status == Get(filter, "status")
      priority == Get(filter, "priority")
      withStatus == IF status # Undefined /\ status # "all"
                      THEN [status |-> status] ELSE <<>>
  IN  IF priority # Undefined /\ priority # "all"
        THEN Spread(withStatus, [priority |-> priority])
        ELSE withStatus

\* The map() stage of getTasks: the client-side search filter.
getTasksMap(filter, respTasks) ==
  LET search == Get(filter, "search")
  IN  IF search # Undefined /\ search # ""
        THEN LET searchLower == toLowerCase(Letters(search))
             IN  Filter(respTasks, LAMBDA task : MatchesSearch(task, searchLower))
        ELSE respTasks

\* getTasksNext adding the returned tasks to the ones already held.
getTasksNextMerges(store, mapped) ==
  [store EXCEPT !.tasks = store.tasks \o mapped, !.loading = FALSE]

getTasksNext(store, mapped) ==
  [store EXCEPT !.tasks = mapped, !.loading = FALSE]

getTasksError(store, message) ==
  [store EXCEPT !.error = message, !.loading = FALSE]

\* The object createTask posts; now is the reading of the clock.
createTaskBody(taskData, now) ==
  Spread(taskData,
         [id |-> <<"task", now>>,
          assignee |-> getUserById(Get(taskData, "assigneeId")),
          createdAt |-> now,
          updatedAt |-> now])

\* createTaskNext with the new task put first.
createTaskNextPrepends(store, task) ==
  [store EXCEPT !.tasks = <<task>> \o store.tasks, !.loading = FALSE]

createTaskNext(store, task) ==
  [store EXCEPT !.tasks = Append(store.tasks, task), !.loading = FALSE]

createTaskError(store, message) ==
  [store EXCEPT !.error = message, !.loading = FALSE]

\* updateTaskBody sending the assigneeId along with the rest.
updateTaskBodyKeepsAssigneeId(taskData, now) ==
  LET assigneeId == Get(taskData, "assigneeId")
      cleanTaskData ==
        Restrict(taskData, {f \in DOMAIN taskData : taskData[f] # Undefined})
      updateData == Spread(cleanTaskData, [updatedAt |-> now])
  IN  IF assigneeId # Undefined /\ assigneeId # ""
        THEN Spread(updateData, [assignee |-> getUserById(assigneeId)])
        ELSE updateData

\* The object updateTask patches with.
updateTaskBody(taskData, now) ==
  LET assigneeId == Get(taskData, "assigneeId")
      restTaskData == Restrict(taskData, DOMAIN taskData \ {"assigneeId"})
      cleanTaskData ==
        Restrict(restTaskData, {f \in DOMAIN restTaskData : restTaskData[f] # Undefined})
      updateData == Spread(cleanTaskData, [updatedAt |-> now])
  IN  IF assigneeId # Undefined /\ assigneeId # ""
        THEN Spread(updateData, [assignee |-> getUserById(assigneeId)])
        ELSE updateData

\* updateTaskNext adding the returned task when no element has its id.
updateTaskNextUpserts(store, id, updatedTask) ==
  [store EXCEPT
     !.tasks = IF \E k \in DOMAIN store.tasks : store.tasks[k].id = id
                 THEN [k \in DOMAIN store.tasks |->
                         IF store.tasks[k].id = id THEN updatedTask ELSE store.tasks[k]]
                 ELSE Append(store.tasks, updatedTask),
     !.loading = FALSE]

\* updateTaskNext keeping whichever record has the later updatedAt.
updateTaskNextNewest(store, id, updatedTask) ==
  [store EXCEPT
     !.tasks = [k \in DOMAIN store.tasks |->
                  IF store.tasks[k].id = id
                     /\ updatedTask.updatedAt >= store.tasks[k].updatedAt
                    THEN updatedTask ELSE store.tasks[k]],
     !.loading = FALSE]

\* updateTaskNext taking the old record out and putting the new one last.
updateTaskNextMovesToEnd(store, id, updatedTask) ==
  [store EXCEPT
     !.tasks = IF \E k \in DOMAIN store.tasks : store.tasks[k].id = id
                 THEN Append(Filter(store.tasks, LAMBDA task : task.id # id), updatedTask)
                 ELSE store.tasks,
     !.loading = FALSE]

updateTaskNext(store, id, updatedTask) ==
  [store EXCEPT
     !.tasks = [k \in DOMAIN store.tasks |->
                  IF store.tasks[k].id = id THEN updatedTask ELSE store.tasks[k]],
     !.loading = FALSE]

\* updateTaskError that also empties the list.
updateTaskErrorClears(store, message) ==
  [store EXCEPT !.tasks = <<>>, !.error = message, !.loading = FALSE]

updateTaskError(store, message) ==
  [store EXCEPT !.error = message, !.loading = FALSE]

\* deleteTaskNext that throws the whole list away.
deleteTaskNextClearsList(store, id) ==
  [store EXCEPT !.tasks = <<>>, !.loading = FALSE]

\* deleteTaskNext removing by position instead of by id.
deleteTaskNextRemovesFirst(store, id) ==
  [store EXCEPT !.tasks = IF store.tasks = <<>> THEN <<>> ELSE Tail(store.tasks),
                !.loading = FALSE]

deleteTaskNext(store, id) ==
  [store EXCEPT !.tasks = Filter(store.tasks, LAMBDA task : task.id # id),
                !.loading = FALSE]

\* deleteTaskError that forgets to lower the loading flag.
deleteTaskErrorKeepsLoading(store, message) ==
  [store EXCEPT !.error = message]

deleteTaskError(store, message) ==
  [store EXCEPT !.error = message, !.loading = FALSE]

\* httpErrorInterceptor: the message of the Error the service is handed.
ErrorMessage(code) ==
  CASE code = 400 -> "Bad Request"
    [] code = 401 -> "Unauthorized"
    [] code = 403 -> "Forbidden"
    [] code = 404 -> "Resource not found"
    [] code = 500 -> "Internal server error"
    [] OTHER -> "Error Code"

\* ------------------------------------------------------------------------
\* The task repository behind the HTTP boundary
\* ------------------------------------------------------------------------
\* list: the repository may apply the status / priority parameters or
\* ignore them.
RepoList(store, params, honour) ==
  IF honour
    THEN Filter(store, LAMBDA task :
                  /\ ("status" \in DOMAIN params => task.status = params.status)
                  /\ ("priority" \in DOMAIN params => task.priority = params.priority))
    ELSE store

\* create: the stored task is the posted object under the id the
\* repository settles on.
RepoCreate(body, id) == Spread(body, [id |-> id])

\* update: properties absent from the patch are left untouched.
RepoUpdate(task, patch) == Spread(task, patch)

RepoFind(store, id) == store[CHOOSE k \in DOMAIN store : store[k].id = id]

\* ------------------------------------------------------------------------
\* cdk/drag-drop array helpers (indices are zero-based, as in the event)
\* ------------------------------------------------------------------------
clamp(value, max) == IF value < 0 THEN 0 ELSE IF value > max THEN max ELSE value

RemoveAt(arr, k) == SubSeq(arr, 1, k) \o SubSeq(arr, k + 2, Len(arr))

InsertAt(arr, k, item) == SubSeq(arr, 1, k) \o <<item>> \o SubSeq(arr, k + 1, Len(arr))

\* moveItemInArray writing the item over the target slot without taking it
\* out of its old one.
moveItemInArrayCopies(arr, fromIndex, toIndex) ==
  LET from == clamp(fromIndex, Len(arr) - 1)
      to == clamp(toIndex, Len(arr) - 1)
  IN  IF from = to \/ Len(arr) = 0
        THEN arr
        ELSE [arr EXCEPT ![to + 1] = arr[from + 1]]

moveItemInArray(arr, fromIndex, toIndex) ==
  LET from == clamp(fromIndex, Len(arr) - 1)
      to == clamp(toIndex, Len(arr) - 1)
  IN  IF from = to \/ Len(arr) = 0
        THEN arr
        ELSE InsertAt(RemoveAt(arr, from), to, arr[from + 1])

\* transferArrayItem putting the item last in the target whatever the index.
transferArrayItemAppends(current, target, currentIndex, targetIndex) ==
  LET from == clamp(currentIndex, Len(current) - 1)
  IN  IF Len(current) > 0
        THEN [current |-> RemoveAt(current, from),
              target |-> Append(target, current[from + 1])]
        ELSE [current |-> current, target |-> target]

\* The pair of arrays after transferArrayItem(current, target, ...).
transferArrayItem(current, target, currentIndex, targetIndex) ==
  LET from == clamp(currentIndex, Len(current) - 1)
      to == clamp(targetIndex, Len(target))
  IN  IF Len(current) > 0
        THEN [current |-> RemoveAt(current, from),
              target |-> InsertAt(target, to, current[from + 1])]
        ELSE [current |-> current, target |-> target]

\* getStatusFromContainerId knowing two columns only.
getStatusFromContainerIdTwoColumns(id) ==
  IF id = "done" THEN "done" ELSE "todo"

\* TasksComponent.getStatusFromContainerId
getStatusFromContainerId(id) ==
  IF id = "todo" THEN "todo" ELSE IF id = "in_progress" THEN "in_progress" ELSE "done"

\* ------------------------------------------------------------------------
\* Inputs
\* ------------------------------------------------------------------------
StatusChoices == {"all", "done"}
PriorityChoices == {"all", "high"}
Queries == {"", "a"}

\* What the create form submits.
NewTaskInputs ==
  { [title |-> "Ab", description |-> "b", status |-> "todo", priority |-> "high",
     assigneeId |-> "user-003"] }

\* What the edit form submits for a card: the card's values with one field
\* changed by the user.
EditInputs(task) ==
  LET base == [title |-> task.title, description |-> task.description,
               status |-> task.status, priority |-> task.priority,
               assigneeId |-> task.assignee.id]
  IN  { [base EXCEPT !.priority = "low"] }

\* The cards on the board.
Cards == UNION { {board[c][k] : k \in DOMAIN board[c]} : c \in TaskStatus }

\* The indices a drop event can carry for a column.
Positions(c) == 0..Len(board[c])

InFlight == {i \in DOMAIN net : net[i].st # "done"}

\* Room for n more service calls, with the handler free to run.
CanCall(n) ==
  /\ mounted
  /\ cont = "none"
  /\ Len(net) + n <= MaxCalls
  /\ Cardinality(InFlight) < MaxInFlight

Event(kind, op, seq, id, resp, racedWith, origin) ==
  [kind |-> kind, op |-> op, seq |-> seq, id |-> id, resp |-> resp,
   racedWith |-> racedWith, origin |-> origin]

\* ------------------------------------------------------------------------
\* Initial state
\* ------------------------------------------------------------------------
Init ==
  /\ tasks = <<>>
  /\ loading = FALSE
  /\ error = Null
  /\ statusFilter = "all"
  /\ priorityFilter = "all"
  /\ searchQuery = ""
  /\ board = [todo |-> <<>>, in_progress |-> <<>>, done |-> <<>>]
  /\ db = SeedTasks
  /\ net = <<>>
  /\ mounted = FALSE
  /\ cont = "none"
  /\ last = Event("init", "", 0, NoId, <<>>, 0, "")
  /\ clock = [year |-> 2025, month |-> 1, date |-> 1, hours |-> 0]
  /\ overdue = <<>>

\* ------------------------------------------------------------------------
\* Service calls.  The filter controls and the search box emit when their
\* value changes; a write of a changed value to a signal a computed signal
\* reads makes the bucket arrays re-evaluate.
\* ------------------------------------------------------------------------
\* The store and the network after a call has been issued.
Issue(req) ==
  LET entered == OnEntry(Store)
  IN  /\ tasks' = entered.tasks
      /\ loading' = entered.loading
      /\ error' = entered.error
      /\ net' = Append(net, req)
      /\ last' = Event("call", req.op, Len(net) + 1, req.id, <<>>, 0, req.origin)

\* TasksComponent.loadTasks with the filter values status, priority, query.
loadTasks(status, priority, query, origin) ==
  LET filter == [status |-> status, priority |-> priority, search |-> query]
  IN  Issue(Request("list", NoId, getTasksParams(filter), filter.search, origin))

NgOnInit ==
  /\ ~mounted
  /\ mounted' = TRUE
  /\ loadTasks(statusFilter, priorityFilter, searchQuery, "init")
  /\ UNCHANGED <<statusFilter, priorityFilter, searchQuery, board, db, cont>>
  /\ UNCHANGED <<clock, overdue>>

OnStatusFilterChange(status) ==
  /\ CanCall(1)
  /\ status # statusFilter
  /\ statusFilter' = status
  /\ board' = Buckets(tasks, status, priorityFilter, searchQuery)
  /\ loadTasks(status, priorityFilter, searchQuery, "filter")
  /\ UNCHANGED <<priorityFilter, searchQuery, db, mounted, cont>>
  /\ UNCHANGED <<clock, overdue>>

OnPriorityFilterChange(priority) ==
  /\ CanCall(1)
  /\ priority # priorityFilter
  /\ priorityFilter' = priority
  /\ board' = Buckets(tasks, statusFilter, priority, searchQuery)
  /\ loadTasks(statusFilter, priority, searchQuery, "filter")
  /\ UNCHANGED <<statusFilter, searchQuery, db, mounted, cont>>
  /\ UNCHANGED <<clock, overdue>>

\* TasksComponent.onSearchChange
OnSearchChange(query) ==
  /\ CanCall(1)
  /\ query # searchQuery
  /\ searchQuery' = query
  /\ board' = Buckets(tasks, statusFilter, priorityFilter, query)
  /\ loadTasks(statusFilter, priorityFilter, query, "filter")
  /\ UNCHANGED <<statusFilter, priorityFilter, db, mounted, cont>>
  /\ UNCHANGED <<clock, overdue>>

\* HeaderComponent.onSearchChange / clearSearch: SearchService.setSearchQuery
\* and nothing else.
HeaderSearch(query) ==
  /\ mounted
  /\ cont = "none"
  /\ query # searchQuery
  /\ searchQuery' = query
  /\ board' = Buckets(tasks, statusFilter, priorityFilter, query)
  /\ UNCHANGED <<tasks, loading, error, statusFilter, priorityFilter, db, net,
                 mounted, cont, last>>
  /\ UNCHANGED <<clock, overdue>>

\* TasksComponent.onTaskDropped, previousContainer === container
DropSameColumn(container, previousIndex, currentIndex) ==
  /\ mounted
  /\ cont = "none"
  /\ previousIndex \in 0..(Len(board[container]) - 1)
  /\ currentIndex \in 0..(Len(board[container]) - 1)
  /\ currentIndex # previousIndex
  /\ board' = [board EXCEPT
                 ![container] = moveItemInArray(@, previousIndex, currentIndex)]
  /\ UNCHANGED <<tasks, loading, error, statusFilter, priorityFilter, searchQuery,
                 db, net, mounted, cont, last>>
  /\ UNCHANGED <<clock, overdue>>

\* TasksComponent.onTaskDropped, previousContainer !== container
DropOtherColumn(previous, container, previousIndex, currentIndex) ==
  /\ CanCall(1)
  /\ previous # container
  /\ previousIndex \in 0..(Len(board[previous]) - 1)
  /\ currentIndex \in 0..Len(board[container])
  /\ LET moved == transferArrayItem(board[previous], board[container],
                                    previousIndex, currentIndex)
         task == moved.target[currentIndex + 1]
         newStatus == getStatusFromContainerId(container)
     IN  /\ board' = [board EXCEPT ![previous] = moved.current,
                                   ![container] = moved.target]
         /\ Issue(Request("update", task.id,
                          updateTaskBody([status |-> newStatus], Len(net) + 1),
                          "", "drop"))
  /\ UNCHANGED <<statusFilter, priorityFilter, searchQuery, db, mounted, cont>>
  /\ UNCHANGED <<clock, overdue>>

\* onTaskDelete taking the task off the list before the repository answers.
OnTaskDeleteOptimistic(task) ==
  /\ CanCall(2)
  /\ tasks' = Filter(tasks, LAMBDA t : t.id # task.id)
  /\ loading' = TRUE
  /\ error' = Null
  /\ net' = Append(net, Request("delete", task.id, <<>>, "", "delete"))
  /\ last' = Event("call", "delete", Len(net) + 1, task.id, <<>>, 0, "delete")
  /\ UNCHANGED <<statusFilter, priorityFilter, searchQuery, board, db, mounted, cont>>
  /\ UNCHANGED <<clock, overdue>>

\* TasksComponent.onTaskDelete, confirmed
OnTaskDelete(task) ==
  /\ CanCall(2)
  /\ Issue(Request("delete", task.id, <<>>, "", "delete"))
  /\ UNCHANGED <<statusFilter, priorityFilter, searchQuery, board, db, mounted, cont>>
  /\ UNCHANGED <<clock, overdue>>

\* TaskFormComponent.onSubmit in edit mode
SubmitEdit(task, taskData) ==
  /\ CanCall(2)
  /\ Issue(Request("update", task.id, updateTaskBody(taskData, Len(net) + 1),
                   "", "form"))
  /\ UNCHANGED <<statusFilter, priorityFilter, searchQuery, board, db, mounted, cont>>
  /\ UNCHANGED <<clock, overdue>>

\* TaskFormComponent.onSubmit in create mode
SubmitCreate(taskData) ==
  /\ CanCall(2)
  /\ Issue(Request("create", NoId, createTaskBody(taskData, Len(net) + 1),
                   "", "form"))
  /\ UNCHANGED <<statusFilter, priorityFilter, searchQuery, board, db, mounted, cont>>
  /\ UNCHANGED <<clock, overdue>>

\* ------------------------------------------------------------------------
\* The repository answers a request
\* ------------------------------------------------------------------------
Answer(i, code, resp) ==
  net' = [net EXCEPT ![i] = [@ EXCEPT !.st = "served", !.code = code, !.resp = resp]]

ServeList(i, honour) ==
  /\ net[i].st = "sent" /\ net[i].op = "list"
  /\ Answer(i, 200, RepoList(db, net[i].body, honour))
  /\ UNCHANGED db

\* The ids the repository may give the task of create request i: the id
\* posted with it, or one of its own.
RepoIds(i) ==
  IF net[i].op = "create" THEN {net[i].body.id, <<"srv", i>>} ELSE {}

ServeCreate(i, id) ==
  /\ net[i].st = "sent" /\ net[i].op = "create"
  /\ id \notin Ids(db)
  /\ LET task == RepoCreate(net[i].body, id)
     IN  /\ db' = Append(db, task)
         /\ Answer(i, 200, task)

ServeUpdate(i) ==
  /\ net[i].st = "sent" /\ net[i].op = "update"
  /\ net[i].id \in Ids(db)
  /\ LET task == RepoUpdate(RepoFind(db, net[i].id), net[i].body)
     IN  /\ db' = [k \in DOMAIN db |-> IF db[k].id = net[i].id THEN task ELSE db[k]]
         /\ Answer(i, 200, task)

ServeDelete(i) ==
  /\ net[i].st = "sent" /\ net[i].op = "delete"
  /\ net[i].id \in Ids(db)
  /\ db' = Filter(db, LAMBDA task : task.id # net[i].id)
  /\ Answer(i, 200, <<>>)

\* get / update / remove of an id the repository does not hold fails with
\* not-found; any call may fail with a generic failure.
ServeFail(i, code) ==
  /\ net[i].st = "sent"
  /\ \/ code = 500
     \/ code = 404 /\ net[i].op \in {"update", "delete"} /\ net[i].id \notin Ids(db)
  /\ Answer(i, code, <<>>)
  /\ UNCHANGED db

Serve ==
  /\ \E i \in DOMAIN net :
       \/ \E honour \in BOOLEAN : ServeList(i, honour)
       \/ \E id \in RepoIds(i) : ServeCreate(i, id)
       \/ ServeUpdate(i)
       \/ ServeDelete(i)
       \/ \E code \in {404, 500} : ServeFail(i, code)
  /\ UNCHANGED <<tasks, loading, error, statusFilter, priorityFilter, searchQuery,
                 board, mounted, cont, last>>
  /\ UNCHANGED <<clock, overdue>>

\* ------------------------------------------------------------------------
\* A response is delivered to the service
\* ------------------------------------------------------------------------
\* tap({ next }) of the operation the request belongs to
HandleNext(store, r) ==
  CASE r.op = "list" ->
         getTasksNext(store, getTasksMap([search |-> r.search], r.resp))
    [] r.op = "create" -> createTaskNext(store, r.resp)
    [] r.op = "update" -> updateTaskNext(store, r.id, r.resp)
    [] r.op = "delete" -> deleteTaskNext(store, r.id)

\* tap({ error }) of the operation the request belongs to
HandleError(store, r) ==
  CASE r.op = "list" -> getTasksError(store, ErrorMessage(r.code))
    [] r.op = "create" -> createTaskError(store, ErrorMessage(r.code))
    [] r.op = "update" -> updateTaskError(store, ErrorMessage(r.code))
    [] r.op = "delete" -> deleteTaskError(store, ErrorMessage(r.code))

\* The subscriber's next callback: onTaskDelete reloads at once, the form
\* closes its dialog and the opener reloads.
SubscriberNext(origin) ==
  IF origin \in {"delete", "form"} THEN "loadTasks" ELSE "none"

DeliverNext(i) ==
  /\ cont = "none"
  /\ net[i].st = "served" /\ net[i].code = 200
  /\ LET r == net[i]
         after == HandleNext(Store, r)
     IN  /\ tasks' = after.tasks
         /\ loading' = after.loading
         /\ error' = after.error
         /\ board' = Buckets(after.tasks, statusFilter, priorityFilter, searchQuery)
         /\ net' = [j \in DOMAIN net |->
                      IF j = i THEN Done
                      ELSE IF r.op = "update" /\ net[j].op = "update"
                              /\ net[j].st # "done" /\ net[j].id = r.id
                        THEN [net[j] EXCEPT !.racedWith = i]
                        ELSE net[j]]
         /\ cont' = SubscriberNext(r.origin)
         /\ last' = Event("ok", r.op, i, r.id, r.resp, r.racedWith, r.origin)
  /\ UNCHANGED <<statusFilter, priorityFilter, searchQuery, db, mounted>>
  /\ UNCHANGED <<clock, overdue>>

\* DeliverError sending the failed request again.
DeliverErrorRetries(i) ==
  /\ cont = "none"
  /\ net[i].st = "served" /\ net[i].code # 200
  /\ LET r == net[i]
         after == HandleError(Store, r)
     IN  /\ tasks' = after.tasks
         /\ loading' = after.loading
         /\ error' = after.error
         /\ net' = [net EXCEPT ![i] = [@ EXCEPT !.st = "sent", !.code = 0]]
         /\ last' = Event("err", r.op, i, r.id, ErrorMessage(r.code), r.racedWith,
                          r.origin)
  /\ UNCHANGED <<statusFilter, priorityFilter, searchQuery, board, db, mounted, cont>>
  /\ UNCHANGED <<clock, overdue>>

DeliverError(i) ==
  /\ cont = "none"
  /\ net[i].st = "served" /\ net[i].code # 200
  /\ LET r == net[i]
         after == HandleError(Store, r)
     IN  /\ tasks' = after.tasks
         /\ loading' = after.loading
         /\ error' = after.error
         /\ net' = [net EXCEPT ![i] = Done]
         /\ last' = Event("err", r.op, i, r.id, ErrorMessage(r.code), r.racedWith,
                          r.origin)
  /\ UNCHANGED <<statusFilter, priorityFilter, searchQuery, board, db, mounted, cont>>
  /\ UNCHANGED <<clock, overdue>>

\* The reload a successful delete or form submission ends with.
Reload ==
  /\ cont = "loadTasks"
  /\ cont' = "none"
  /\ loadTasks(statusFilter, priorityFilter, searchQuery, "reload")
  /\ UNCHANGED <<statusFilter, priorityFilter, searchQuery, board, db, mounted>>
  /\ UNCHANGED <<clock, overdue>>

\* ------------------------------------------------------------------------
\* Specification
\* ------------------------------------------------------------------------
Next ==
  \/ NgOnInit
  \/ \E status \in StatusChoices : OnStatusFilterChange(status)
  \/ \E priority \in PriorityChoices : OnPriorityFilterChange(priority)
  \/ \E query \in Queries : OnSearchChange(query)
  \/ \E query \in Queries : HeaderSearch(query)
  \/ \E c \in TaskStatus : \E p, k \in Positions(c) : DropSameColumn(c, p, k)
  \/ \E c, d \in TaskStatus : \E p \in Positions(c), k \in Positions(d) :
       DropOtherColumn(c, d, p, k)
  \/ \E task \in Cards : OnTaskDelete(task)
  \/ \E task \in Cards : \E taskData \in EditInputs(task) : SubmitEdit(task, taskData)
  \/ \E taskData \in NewTaskInputs : SubmitCreate(taskData)
  \/ Serve
  \/ \E i \in DOMAIN net : DeliverNext(i)
  \/ \E i \in DOMAIN net : DeliverError(i)
  \/ Reload

Spec == Init /\ [][Next]_vars

\* ------------------------------------------------------------------------
\* The computed signals on their own: any task list under any filter state
\* ------------------------------------------------------------------------
TaskTexts ==
  { [title |-> "A", description |-> "b"],
    [title |-> "b", description |-> "bA"],
    [title |-> "b", description |-> "b"] }

TaskShapes ==
  [status : TaskStatus, priority : {"low", "high"}, text : TaskTexts]

\* The task list a sequence of shapes stands for.  A list holds each id
\* once, or the same id over again (the list after a create response
\* follows a refresh that already held the created task).
TasksOf(shapes, sameId) ==
  [k \in DOMAIN shapes |->
     [id |-> IF sameId THEN <<"seed", 1>> ELSE <<"seed", k>>,
      title |-> shapes[k].text.title,
      description |-> shapes[k].text.description,
      status |-> shapes[k].status,
      priority |-> shapes[k].priority,
      assignee |-> users[1], createdAt |-> 0, updatedAt |-> 0]]

TaskLists ==
  { TasksOf(shapes, sameId) :
      shapes \in UNION { [1..n -> TaskShapes] : n \in 0..MaxLen },
      sameId \in BOOLEAN }

ViewStatusChoices == {"all"} \cup TaskStatus
ViewPriorityChoices == {"all", "low", "high"}
ViewQueries == {"", "A"}

ViewInit ==
  /\ tasks \in TaskLists
  /\ loading = FALSE
  /\ error = Null
  /\ statusFilter \in ViewStatusChoices
  /\ priorityFilter \in ViewPriorityChoices
  /\ searchQuery \in ViewQueries
  /\ board = [todo |-> <<>>, in_progress |-> <<>>, done |-> <<>>]
  /\ db = <<>>
  /\ net = <<>>
  /\ mounted = TRUE
  /\ cont = "none"
  /\ last = Event("init", "", 0, NoId, <<>>, 0, "")
  /\ clock = [year |-> 2025, month |-> 1, date |-> 1, hours |-> 0]
  /\ overdue = <<>>

\* The template reads todoTasks(), inProgressTasks() and doneTasks().
ReadBuckets ==
  /\ last.kind = "init"
  /\ board' = Buckets(tasks, statusFilter, priorityFilter, searchQuery)
  /\ last' = Event("view", "", 0, NoId, <<>>, 0, "")
  /\ UNCHANGED <<tasks, loading, error, statusFilter, priorityFilter, searchQuery,
                 db, net, mounted, cont, clock, overdue>>

ViewNext == ReadBuckets

ViewSpec == ViewInit /\ [][ViewNext]_vars

\* ------------------------------------------------------------------------
\* Due dates: the text the form stores and what isTaskOverdue makes of it
\* ------------------------------------------------------------------------
Digits == <<"0", "1", "2", "3", "4", "5", "6", "7", "8", "9">>

IsDigit(c) == \E k \in DOMAIN Digits : Digits[k] = c

DigitValue(c) == (CHOOSE k \in DOMAIN Digits : Digits[k] = c) - 1

\* String(n) for a non-negative integer
RECURSIVE NumberToString(_)
NumberToString(n) ==
  IF n < 10 THEN <<Digits[n + 1]>>
  ELSE NumberToString(n \div 10) \o <<Digits[(n % 10) + 1]>>

RECURSIVE padStart(_, _, _)
padStart(cs, targetLength, pad) ==
  IF Len(cs) >= targetLength THEN cs ELSE padStart(<<pad>> \o cs, targetLength, pad)

\* TaskFormComponent.onSubmit: `${year}-${month}-${day}` of the picked date
formattedDate(dueDate) ==
  NumberToString(dueDate.year) \o <<"-">>
    \o padStart(NumberToString(dueDate.month), 2, "0") \o <<"-">>
    \o padStart(NumberToString(dueDate.date), 2, "0")

\* String.prototype.split with a one-character separator
RECURSIVE split(_, _)
split(cs, sep) ==
  IF \A k \in DOMAIN cs : cs[k] # sep
    THEN <<cs>>
    ELSE LET at == CHOOSE k \in DOMAIN cs :
                     cs[k] = sep /\ \A j \in 1..(k - 1) : cs[j] # sep
         IN  <<SubSeq(cs, 1, at - 1)>> \o split(SubSeq(cs, at + 1, Len(cs)), sep)

\* NaN, told apart from every value a text without a sign can parse to.
NaN == -1

RECURSIVE DecimalValue(_)
DecimalValue(cs) ==
  IF cs = <<>> THEN 0
  ELSE 10 * DecimalValue(SubSeq(cs, 1, Len(cs) - 1)) + DigitValue(cs[Len(cs)])

\* parseInt(cs, 10) of a text without sign or leading blanks: the value of
\* the leading run of digits, NaN when there is none.
parseInt(cs) ==
  LET n == CHOOSE n \in 0..Len(cs) :
             /\ \A k \in 1..n : IsDigit(cs[k])
             /\ n = Len(cs) \/ ~IsDigit(cs[n + 1])
  IN  IF n = 0 THEN NaN ELSE DecimalValue(SubSeq(cs, 1, n))

Minus(a, b) == IF a = NaN THEN NaN ELSE a - b

IsLeapYear(y) == (y % 4 = 0 /\ y % 100 # 0) \/ y % 400 = 0

DaysBeforeMonth == <<0, 31, 59, 90, 120, 151, 181, 212, 243, 273, 304, 334>>

DaysInMonth(y, m) ==
  IF m = 2 THEN (IF IsLeapYear(y) THEN 29 ELSE 28)
  ELSE IF m \in {4, 6, 9, 11} THEN 30 ELSE 31

\* The number of the day year / monthIndex (zero-based) / date; a month
\* index past 11 runs into the following years, a date past the end of the
\* month into the following days.
DayNumber(year, monthIndex, date) ==
  LET y == year + (monthIndex \div 12)
      m == (monthIndex % 12) + 1
  IN  365 * y + ((y - 1) \div 4) - ((y - 1) \div 100) + ((y - 1) \div 400)
        + DaysBeforeMonth[m] + (IF IsLeapYear(y) /\ m > 2 THEN 1 ELSE 0) + date

\* new Date(year, monthIndex, date): local midnight of that day, in hours;
\* a year from 0 to 99 is taken as 1900 + year.
NewDate(year, monthIndex, date) ==
  IF NaN \in {year, monthIndex, date}
    THEN NaN
    ELSE 24 * DayNumber(IF year <= 99 THEN 1900 + year ELSE year, monthIndex, date)

\* new Date(): the reading of the local clock, in hours
NewDateNow(now) == 24 * DayNumber(now.year, now.month - 1, now.date) + now.hours

\* new Date(text) of a date text that does not have three dash-separated
\* parts: Invalid Date.
DateParse(cs) == NaN

\* date.setHours(0, 0, 0, 0)
setHoursZero(value) == IF value = NaN THEN NaN ELSE value - (value % 24)

\* a < b on time values; every comparison with NaN is false
Less(a, b) == a # NaN /\ b # NaN /\ a < b

Truthy(v) == v \notin {Undefined, Null, ""}

\* isTaskOverdue comparing against the clock reading as it is.
isTaskOverdueKeepsTimeOfDay(task, now) ==
  IF task.status = "done" \/ Truthy(Get(task, "completedAt"))
    THEN FALSE
    ELSE LET dateParts == split(task.dueDate, "-")
         IN  IF Len(dateParts) = 3
               THEN Less(setHoursZero(NewDate(parseInt(dateParts[1]),
                                              Minus(parseInt(dateParts[2]), 1),
                                              parseInt(dateParts[3]))),
                         NewDateNow(now))
               ELSE Less(setHoursZero(DateParse(task.dueDate)), NewDateNow(now))

isTaskOverdue(task, now) ==
  IF task.status = "done" \/ Truthy(Get(task, "completedAt"))
    THEN FALSE
    ELSE LET dateParts == split(task.dueDate, "-")
         IN  IF Len(dateParts) = 3
               THEN Less(setHoursZero(NewDate(parseInt(dateParts[1]),
                                              Minus(parseInt(dateParts[2]), 1),
                                              parseInt(dateParts[3]))),
                         setHoursZero(NewDateNow(now)))
               ELSE Less(setHoursZero(DateParse(task.dueDate)),
                         setHoursZero(NewDateNow(now)))

\* The calendar dates a card or the clock can show.
CalendarDates ==
  {d \in [year : {2024, 2025}, month : {1, 2, 3, 12}, date : {1, 28, 29, 31}] :
     d.date <= DaysInMonth(d.year, d.month)}

Clocks ==
  {[year |-> d.year, month |-> d.month, date |-> d.date, hours |-> h] :
     d \in CalendarDates, h \in {0, 13}}

\* The cards: every status, completed or not, due on any of the dates.
CardTasks ==
  LET base(status, due) ==
        [id |-> <<"seed", 1>>, title |-> "A", description |-> "b", status |-> status,
         priority |-> "high", dueDate |-> formattedDate(due), assignee |-> users[1],
         createdAt |-> 0, updatedAt |-> 0]
  IN  {base(status, due) : status \in TaskStatus, due \in CalendarDates}
        \cup {Spread(base(status, due), [completedAt |-> "2025-01-01"]) :
                status \in TaskStatus, due \in CalendarDates}

OverdueInit ==
  /\ tasks \in {<<task>> : task \in CardTasks}
  /\ clock \in Clocks
  /\ overdue = <<>>
  /\ loading = FALSE
  /\ error = Null
  /\ statusFilter = "all"
  /\ priorityFilter = "all"
  /\ searchQuery = ""
  /\ board = Buckets(tasks, "all", "all", "")
  /\ db = <<>>
  /\ net = <<>>
  /\ mounted = TRUE
  /\ cont = "none"
  /\ last = Event("init", "", 0, NoId, <<>>, 0, "")

\* TaskCardComponent.isOverdue, called when the card is rendered
RenderCard ==
  /\ overdue = <<>>
  /\ overdue' = <<isTaskOverdue(tasks[1], clock)>>
  /\ UNCHANGED <<tasks, loading, error, statusFilter, priorityFilter, searchQuery,
                 board, db, net, mounted, cont, last, clock>>

OverdueNext == RenderCard

OverdueSpec == OverdueInit /\ [][OverdueNext]_vars

\* ------------------------------------------------------------------------
\* The service called with any form value or patch
\* ------------------------------------------------------------------------
FormFields == {"title", "description", "status", "priority", "assigneeId"}

\* Complete form values; the assignee is a user of the built-in list, one it
\* does not have, or none.
FormValues ==
  { [title |-> "A", description |-> "b", status |-> status, priority |-> "high",
     assigneeId |-> assigneeId] :
      status \in {"todo", "done"},
      assigneeId \in {"user-002", "user-004", "user-999", ""} }

\* Partial<TaskFormData>: any of the fields, present ones possibly undefined.
Patches ==
  { [f \in present |-> IF f \in undefined THEN Undefined ELSE value[f]] :
      value \in FormValues, present \in SUBSET FormFields,
      undefined \in SUBSET {"status", "assigneeId"} }

CallInit ==
  /\ tasks = SeedTasks
  /\ loading = FALSE
  /\ error = Null
  /\ statusFilter = "all"
  /\ priorityFilter = "all"
  /\ searchQuery = ""
  /\ board = Buckets(SeedTasks, "all", "all", "")
  /\ db = SeedTasks
  /\ net = <<>>
  /\ mounted = TRUE
  /\ cont = "none"
  /\ \E taskData \in Patches : last = Event("form", "", 0, NoId, taskData, 0, "")
  /\ clock = [year |-> 2025, month |-> 1, date |-> 1, hours |-> 0]
  /\ overdue = <<>>

\* taskService.updateTask(id, taskData) with the value at hand
CallUpdateTask ==
  /\ last.kind = "form"
  /\ \E task \in Cards : SubmitEdit(task, last.resp)

\* taskService.createTask(taskData) with the value at hand, when complete
CallCreateTask ==
  /\ last.kind = "form"
  /\ DOMAIN last.resp = FormFields
  /\ \A f \in FormFields : last.resp[f] # Undefined
  /\ SubmitCreate(last.resp)

CallNext == CallUpdateTask \/ CallCreateTask

CallSpec == CallInit /\ [][CallNext]_vars

\* ------------------------------------------------------------------------
\* A refresh answered with any task list
\* ------------------------------------------------------------------------
\* getTasks({ search }) has been called and the repository has answered
\* with the list resp.
AnsweredRefresh(search, resp) ==
  [Request("list", NoId, <<>>, search, "init") EXCEPT
     !.st = "served", !.code = 200, !.resp = resp]

RefreshInit ==
  /\ tasks \in {<<>>, SeedTasks}
  /\ loading = TRUE
  /\ error = Null
  /\ statusFilter = "all"
  /\ priorityFilter = "all"
  /\ searchQuery \in ViewQueries
  /\ board = Buckets(tasks, statusFilter, priorityFilter, searchQuery)
  /\ db = <<>>
  /\ \E resp \in TaskLists : net = <<AnsweredRefresh(searchQuery, resp)>>
  /\ mounted = TRUE
  /\ cont = "none"
  /\ last = Event("call", "list", 1, NoId, <<>>, 0, "init")
  /\ clock = [year |-> 2025, month |-> 1, date |-> 1, hours |-> 0]
  /\ overdue = <<>>

RefreshNext == \E i \in DOMAIN net : DeliverNext(i)

RefreshSpec == RefreshInit /\ [][RefreshNext]_vars

\* ------------------------------------------------------------------------
\* Properties
\* ------------------------------------------------------------------------
\* The step is a call of the service (kind "call") or the delivery of a
\* response to it (kind "ok" or "err").
Handled(kind) ==
  /\ last'.seq # last.seq \/ last'.kind # last.kind
  /\ last'.kind = kind

\* C1: a failed createTask, updateTask, deleteTask or getTasks leaves
\* Store.tasks exactly as it was before the failure was delivered; no
\* element is added, removed, replaced or reordered.
C1_FailureKeepsTasks ==
  [][Handled("err") => tasks' = tasks]_vars

\* A failed update has been delivered to a store that holds tasks while it
\* reports the failure.
C1_Witness ==
  /\ last.kind = "err" /\ last.op = "update"
  /\ Len(tasks) >= 2
  /\ error # Null

\* C2: when two updateTask calls for one id were in flight together and both
\* succeeded, the record of that id is the task carried by the response
\* delivered last, whichever call was issued first.
C2_LastResponseWins ==
  (last.kind = "ok" /\ last.op = "update" /\ last.racedWith # 0)
    => \A k \in DOMAIN tasks : tasks[k].id = last.id => tasks[k] = last.resp

\* The call issued first was answered last, and its task is in the store.
C2_Witness ==
  /\ last.kind = "ok" /\ last.op = "update"
  /\ last.racedWith # 0
  /\ last.seq < last.racedWith
  /\ \E k \in DOMAIN tasks : tasks[k] = last.resp

\* C3: no two elements of Store.tasks have the same id.
C3_UniqueIds ==
  \A j, k \in DOMAIN tasks : tasks[j].id = tasks[k].id => j = k

\* C4: after a cross-column drop whose updateTask failed, the bucket lists
\* the board reads show the moved task in the bucket of its status in
\* Store.tasks, that is, back in its original bucket.
C4_SnapBack ==
  (last.kind = "err" /\ last.origin = "drop")
    => \A c \in TaskStatus : \A k \in DOMAIN board[c] :
         board[c][k].id = last.id
           => \E j \in DOMAIN tasks : tasks[j].id = last.id /\ tasks[j].status = c

\* C5: a confirmed drop into the done column leaves the record of the moved
\* task with status done and completedAt set; any other confirmed update
\* leaves the completedAt of the record as it was.
C5_DoneSetsCompletedAt ==
  [][(Handled("ok") /\ last'.op = "update")
       => \A k \in DOMAIN tasks :
            tasks[k].id = last'.id
              => IF last'.origin = "drop" /\ last'.resp.status = "done"
                      /\ tasks[k].status # "done"
                   THEN /\ tasks'[k].status = "done"
                        /\ Get(tasks'[k], "completedAt") # Undefined
                   ELSE Get(tasks'[k], "completedAt") = Get(tasks[k], "completedAt")]_vars

\* C6: a change of the status filter, the priority filter or the search
\* string does not change Store.tasks, neither in the step that makes the
\* change nor when the response of the call the change set off is delivered.
C6_FilterKeepsTasks ==
  [][/\ (statusFilter' # statusFilter \/ priorityFilter' # priorityFilter
           \/ searchQuery' # searchQuery) => tasks' = tasks
     /\ ((Handled("ok") \/ Handled("err")) /\ last'.origin = "filter")
          => tasks' = tasks]_vars

\* C7: every call of getTasks, createTask, updateTask, deleteTask sets
\* loading to true and the error to null; the delivery of its response sets
\* loading to false, and a failure also sets the error to that failure.
C7_LoadingAndError ==
  /\ last.kind = "call" => (loading = TRUE /\ error = Null)
  /\ last.kind \in {"ok", "err"} => loading = FALSE
  /\ last.kind = "err" => error = last.resp

\* A delete has failed while another call was still unanswered.
C7_Witness ==
  /\ last.kind = "err" /\ last.op = "delete"
  /\ InFlight # {}
  /\ error = "Internal server error"

\* C8: a successful updateTask(id, patch) puts the task the repository
\* returned at the position of the element whose id is id, and changes
\* neither any other element nor the length of the sequence.
C8_UpdateReplacesInPlace ==
  [][(Handled("ok") /\ last'.op = "update")
       => /\ Len(tasks') = Len(tasks)
          /\ \A k \in DOMAIN tasks :
               tasks'[k] = IF tasks[k].id = last'.id THEN last'.resp ELSE tasks[k]]_vars

\* The first of two tasks has just been replaced by what the repository
\* returned for a drop, and that record carries the priority of an edit
\* whose own response is still to come: it is not the local record with
\* the patch applied.
C8_Witness ==
  /\ last.kind = "ok" /\ last.op = "update" /\ last.origin = "drop"
  /\ Len(tasks) = 2
  /\ tasks[1] = last.resp
  /\ tasks[1].id = <<"seed", 1>>
  /\ tasks[1].priority = "low"
  /\ tasks[2].id # last.id
  /\ \E j \in InFlight : net[j].origin = "form" /\ net[j].id = last.id

\* C9: a successful createTask appends the task the repository returned,
\* under the repository's id, as the last element; the earlier elements keep
\* value and position.
C9_CreateAppends ==
  [][(Handled("ok") /\ last'.op = "create")
       => /\ Len(tasks') = Len(tasks) + 1
          /\ tasks'[Len(tasks')] = last'.resp
          /\ \A k \in DOMAIN tasks : tasks'[k] = tasks[k]]_vars

\* A task has been appended to a non-empty store under an id the repository
\* chose, not the one the client posted.
C9_Witness ==
  /\ last.kind = "ok" /\ last.op = "create"
  /\ Len(tasks) >= 2
  /\ tasks[Len(tasks)] = last.resp
  /\ last.resp.id[1] = "srv"

\* C10: a successful deleteTask(id) removes exactly the elements whose id is
\* id and keeps the others in their order.
C10_DeleteRemovesById ==
  [][(Handled("ok") /\ last'.op = "delete")
       => /\ \A k \in DOMAIN tasks' : tasks'[k].id # last'.id
          /\ tasks' = SelectSeq(tasks, LAMBDA task : task.id # last'.id)]_vars

\* The second of the loaded tasks has been deleted and the first is still
\* there.
C10_Witness ==
  /\ last.kind = "ok" /\ last.op = "delete"
  /\ last.id = <<"seed", 2>>
  /\ Len(tasks) = 1
  /\ tasks[1].id = <<"seed", 1>>

\* A request the repository has answered with success and whose response
\* has not been delivered yet, for an update or a delete.
Mutating(r) == r.op \in {"update", "delete"} /\ r.st = "served" /\ r.code = 200

\* ts with the effects of the requests a and b on different ids: the
\* deleted ids are gone, the updated ids carry the returned task, the rest
\* is as it was.
BothEffects(ts, a, b) ==
  LET gone == {r.id : r \in {x \in {a, b} : x.op = "delete"}}
      changed == {x \in {a, b} : x.op = "update"}
      kept == SelectSeq(ts, LAMBDA task : task.id \notin gone)
  IN  [k \in DOMAIN kept |->
         IF \E r \in changed : r.id = kept[k].id
           THEN (CHOOSE r \in changed : r.id = kept[k].id).resp
           ELSE kept[k]]

\* C11: while the successful response of an update or delete is delivered
\* and another successful update or delete of a different id is waiting,
\* the waiting one stays deliverable, and delivering it next gives the list
\* with both effects, the same list as the two deliveries in the other order.
C11_DifferentIdsCommute ==
  [][\A i, j \in DOMAIN net :
       (/\ i # j
        /\ Handled("ok") /\ last'.seq = i
        /\ Mutating(net[i]) /\ Mutating(net[j])
        /\ net[i].id # net[j].id)
         => /\ net'[j].st = "served"
            /\ HandleNext([tasks |-> tasks', loading |-> loading', error |-> error'],
                          net[j]).tasks
                 = BothEffects(tasks, net[i], net[j])
            /\ HandleNext(HandleNext(Store, net[j]), net[i]).tasks
                 = BothEffects(tasks, net[i], net[j])]_vars

\* The delete of the second task was called before the drop of the first
\* and answered after it: the first task carries the drop's update and the
\* second is gone.
C11_Witness ==
  /\ last.kind = "ok" /\ last.op = "delete" /\ last.seq = 2
  /\ last.id = <<"seed", 2>>
  /\ Len(net) = 3 /\ net[3].st = "done"
  /\ Len(tasks) = 1
  /\ tasks[1].id = <<"seed", 1>>
  /\ tasks[1].updatedAt = 3

\* How often x occurs in the sequence xs.
Count(x, xs) == Cardinality({k \in DOMAIN xs : xs[k] = x})

\* The cards of the three columns, column after column.
AllBuckets == board.todo \o board.in_progress \o board.done

\* task passes the status filter, the priority filter and the search filter;
\* a filter at its default lets every task pass.
Satisfies(task, status, priority, query) ==
  /\ status = "all" \/ task.status = status
  /\ priority = "all" \/ task.priority = priority
  /\ \/ query = ""
     \/ includes(toLowerCase(Letters(task.title)), toLowerCase(Letters(query)))
     \/ includes(toLowerCase(Letters(task.description)), toLowerCase(Letters(query)))

\* C12: for every task list and filter state, the tasks in the buckets are
\* exactly the tasks of the list that pass the status filter and the
\* priority filter and the search filter, each as often as the list holds
\* it; the list may hold tasks the filters would not have asked for.
C12_FiltersCompose ==
  last.kind = "view"
    => \A task \in {tasks[k] : k \in DOMAIN tasks}
                    \cup {AllBuckets[k] : k \in DOMAIN AllBuckets} :
         Count(task, AllBuckets)
           = IF Satisfies(task, statusFilter, priorityFilter, searchQuery)
               THEN Count(task, tasks) ELSE 0

\* All three filters are set; the list holds a task of another status than
\* the one asked for and a task that passes status and priority but not the
\* search, and the only card is the task that passes all three.
C12_Witness ==
  /\ last.kind = "view"
  /\ statusFilter = "todo" /\ priorityFilter = "high" /\ searchQuery = "A"
  /\ Len(tasks) = 2
  /\ tasks[1].status = "todo" /\ tasks[1].priority = "high"
  /\ ~Satisfies(tasks[1], "all", "all", searchQuery)
  /\ AllBuckets = <<tasks[2]>>

\* C13: for every task list and filter state, no task is in two buckets, the
\* buckets together hold each id as often as the filtered list does, and
\* every status has its bucket, which is the empty list when no task of the
\* filtered list has that status.
C13_BucketsPartition ==
  last.kind = "view"
    => LET passing == SelectSeq(tasks, LAMBDA task :
                        Satisfies(task, statusFilter, priorityFilter, searchQuery))
       IN  /\ \A c, d \in TaskStatus :
                c # d => \A j \in DOMAIN board[c], k \in DOMAIN board[d] :
                           board[c][j] # board[d][k]
           /\ \A id \in Ids(tasks) \cup Ids(AllBuckets) :
                Cardinality({k \in DOMAIN AllBuckets : AllBuckets[k].id = id})
                  = Cardinality({k \in DOMAIN passing : passing[k].id = id})
           /\ DOMAIN board = TaskStatus
           /\ \A c \in TaskStatus :
                (\A k \in DOMAIN passing : passing[k].status # c) => board[c] = <<>>

\* Two tasks that pass the filters sit in two different buckets and the
\* third bucket is the empty list.
C13_Witness ==
  /\ last.kind = "view"
  /\ Len(tasks) = 2
  /\ priorityFilter = "low"
  /\ board.todo = <<tasks[2]>>
  /\ board.done = <<tasks[1]>>
  /\ board.in_progress = <<>>

\* C14: for every task list and filter state, each bucket lists its tasks in
\* the order the task list has them.
C14_BucketsKeepOrder ==
  last.kind = "view"
    => \A c \in TaskStatus :
         \E at \in [DOMAIN board[c] -> DOMAIN tasks] :
           /\ \A k \in DOMAIN board[c] : tasks[at[k]] = board[c][k]
           /\ \A j, k \in DOMAIN board[c] : j < k => at[j] < at[k]

\* Two different tasks of one status are in their bucket in list order.
C14_Witness ==
  /\ last.kind = "view"
  /\ Len(tasks) = 2
  /\ tasks[1] # tasks[2]
  /\ board.todo = tasks

\* C15: the bucket lists the board reads are determined by Store.tasks and
\* the filter state: in every state they are the lists the computed signals
\* give for the current task list and filters, so two states that agree on
\* both show the same three lists, whatever was dropped before.
C15_BucketsDetermined ==
  board = Buckets(tasks, statusFilter, priorityFilter, searchQuery)

\* xs without the element at the zero-based index idx.
Without(xs, idx) ==
  [j \in 1..(Len(xs) - 1) |-> IF j <= idx THEN xs[j] ELSE xs[j + 1]]

\* C16: a drop inside one column moves the card at previousIndex to
\* currentIndex in that column's list and does nothing else: no request is
\* issued, Store.tasks, loading and the error stay as they are, and the
\* other two lists are untouched.
C16_SameColumnDropFrame ==
  [][\A c \in TaskStatus : \A p, k \in Positions(c) :
       DropSameColumn(c, p, k)
         => /\ Len(board'[c]) = Len(board[c])
            /\ board'[c][k + 1] = board[c][p + 1]
            /\ Without(board'[c], k) = Without(board[c], p)
            /\ \A d \in TaskStatus \ {c} : board'[d] = board[d]
            /\ net' = net
            /\ tasks' = tasks /\ loading' = loading /\ error' = error]_vars

\* With no call outstanding, a column of two different cards shows them in
\* the opposite order of the computed list.
C16_Witness ==
  /\ InFlight = {}
  /\ \E c \in TaskStatus :
       LET computed == Buckets(tasks, statusFilter, priorityFilter, searchQuery)[c]
       IN  /\ Len(computed) = 2
           /\ computed[1] # computed[2]
           /\ board[c] = <<computed[2], computed[1]>>

\* C17: a drop into another column takes the card out of the source list at
\* previousIndex, puts it into the destination list at currentIndex, and
\* issues exactly one updateTask for the id of that card whose patch (apart
\* from the updatedAt stamp updateTask adds to every patch) is the status of
\* the destination column; Store.tasks is the same after the step.
C17_OtherColumnDrop ==
  [][\A c, d \in TaskStatus : \A p \in Positions(c), k \in Positions(d) :
       DropOtherColumn(c, d, p, k)
         => LET task == board[c][p + 1]
                req == net'[Len(net')]
            IN  /\ board'[c] = Without(board[c], p)
                /\ board'[d][k + 1] = task
                /\ Without(board'[d], k) = board[d]
                /\ \A e \in TaskStatus \ {c, d} : board'[e] = board[e]
                /\ Len(net') = Len(net) + 1
                /\ SubSeq(net', 1, Len(net)) = net
                /\ req.op = "update" /\ req.st = "sent"
                /\ req.id = task.id
                /\ Restrict(req.body, DOMAIN req.body \ {"updatedAt"}) = [status |-> d]
                /\ tasks' = tasks]_vars

\* A card has just been dropped in front of the card of another column: the
\* update for it is issued and unanswered, and the store still has the task
\* under its old status.
C17_Witness ==
  /\ last.kind = "call" /\ last.op = "update" /\ last.origin = "drop"
  /\ net[last.seq].st = "sent"
  /\ \E d \in TaskStatus :
       /\ net[last.seq].body.status = d
       /\ Len(board[d]) = 2
       /\ board[d][1].id = last.id
       /\ \E k \in DOMAIN tasks : tasks[k].id = last.id /\ tasks[k].status # d

\* The calendar date a comes before the calendar date b.
Earlier(a, b) ==
  \/ a.year < b.year
  \/ a.year = b.year /\ a.month < b.month
  \/ a.year = b.year /\ a.month = b.month /\ a.date < b.date

\* C18: a card is overdue exactly when its status is not done, it has no
\* completedAt, and the calendar date its dueDate text stands for comes
\* before the calendar date of the local clock; so a done card is never
\* overdue and a card due today is not overdue at any time of the day.
C18_OverdueIff ==
  overdue # <<>>
    => (overdue[1]
          <=> /\ tasks[1].status # "done"
              /\ "completedAt" \notin DOMAIN tasks[1]
              /\ \E due \in CalendarDates :
                   /\ formattedDate(due) = tasks[1].dueDate
                   /\ Earlier(due, clock))

\* In the middle of the day, an open card due today has been found not
\* overdue.
C18_Witness ==
  /\ overdue = <<FALSE>>
  /\ tasks[1].status = "todo"
  /\ "completedAt" \notin DOMAIN tasks[1]
  /\ clock.hours = 13
  /\ tasks[1].dueDate = formattedDate([year |-> clock.year, month |-> clock.month,
                                       date |-> clock.date])

\* C19: a successful updateTask response is adopted only for an id the
\* store still holds: when no element has the id (the task was deleted or a
\* refresh dropped it in the meantime) Store.tasks stays as it is and the
\* task is not added; when an element has the id that element becomes the
\* returned task.
C19_StaleUpdateNotAdopted ==
  [][(Handled("ok") /\ last'.op = "update")
       => IF last'.id \in Ids(tasks)
            THEN /\ Len(tasks') = Len(tasks)
                 /\ \A k \in DOMAIN tasks : tasks[k].id = last'.id => tasks'[k] = last'.resp
            ELSE /\ tasks' = tasks
                 /\ last'.id \notin Ids(tasks')]_vars

\* The response of an update has been delivered to a store that holds tasks
\* but none with its id.
C19_Witness ==
  /\ last.kind = "ok" /\ last.op = "update"
  /\ tasks # <<>>
  /\ last.id \notin Ids(tasks)
  /\ last.resp.id = last.id

Progress(st) == CASE st = "sent" -> 0 [] st = "served" -> 1 [] st = "done" -> 2

C22_StatusGraphComplete ==
  [][/\ \A c, d \in TaskStatus : \A p \in Positions(c), k \in Positions(d) :
          /\ (c # d /\ p < Len(board[c]) /\ CanCall(1))
               => ENABLED DropOtherColumn(c, d, p, k)
          /\ DropOtherColumn(c, d, p, k)
               => /\ net'[Len(net')].body.status = d
                  /\ net'[Len(net')].id = board[c][p + 1].id
     /\ \A i \in DOMAIN net' :
          (net'[i].op = "update" /\ "status" \in DOMAIN net'[i].body)
            => net'[i].body.status \in TaskStatus
     /\ (Handled("ok") /\ last'.op = "update" /\ last'.origin = "drop")
          => \A k \in DOMAIN tasks :
               tasks[k].id = last'.id
                 => tasks'[k].status = net[last'.seq].body.status]_vars

\* A task the store holds as in progress has been dropped into the done
\* column and the update carrying done is on its way.
C22_Witness ==
  /\ last.kind = "call" /\ last.op = "update" /\ last.origin = "drop"
  /\ net[last.seq].body.status = "done"
  /\ \E k \in DOMAIN tasks : tasks[k].id = last.id /\ tasks[k].status = "in_progress"
  /\ \E k \in DOMAIN board.done : board.done[k].id = last.id

\* The cards of bucket occur in ts in the order bucket lists them.
RECURSIVE InStoreOrder(_, _)
InStoreOrder(bucket, ts) ==
  IF bucket = <<>> THEN TRUE
  ELSE IF ts = <<>> THEN FALSE
  ELSE IF Head(bucket) = Head(ts) THEN InStoreOrder(Tail(bucket), Tail(ts))
  ELSE InStoreOrder(bucket, Tail(ts))

\* C23: a reorder inside a column is not durable.  The drop leaves
\* Store.tasks as it is, and every step that changes Store.tasks or one of
\* the three filter values leaves each column listing its cards in the
\* order Store.tasks has them.
C23_ReorderNotDurable ==
  [][/\ \A c \in TaskStatus : \A p, k \in Positions(c) :
          DropSameColumn(c, p, k) => tasks' = tasks
     /\ (\/ tasks' # tasks
         \/ statusFilter' # statusFilter
         \/ priorityFilter' # priorityFilter
         \/ searchQuery' # searchQuery)
          => \A c \in TaskStatus : InStoreOrder(board'[c], tasks')]_vars

\* A column shows its two cards in the opposite of store order while the
\* successful response of a refresh is waiting to be delivered.
C23_Witness ==
  /\ \E i \in DOMAIN net : net[i].op = "list" /\ net[i].st = "served" /\ net[i].code = 200
  /\ \E c \in TaskStatus :
       LET computed == Buckets(tasks, statusFilter, priorityFilter, searchQuery)[c]
       IN  /\ Len(computed) = 2
           /\ computed[1] # computed[2]
           /\ board[c] = <<computed[2], computed[1]>>
           /\ ~InStoreOrder(board[c], tasks)

\* C24: when a status is selected, the computed buckets of the two other
\* statuses are empty, so at most one bucket has cards and it is the bucket
\* of the selected status.
C24_SelectedStatusOnly ==
  (last.kind = "view" /\ statusFilter # "all")
    => \A c \in TaskStatus : c # statusFilter => board[c] = <<>>

\* With a status and a priority selected, the list holds a task of the
\* selected status and one of another status with the same priority; only
\* the first has a card.
C24_Witness ==
  /\ last.kind = "view"
  /\ statusFilter = "in_progress" /\ priorityFilter = "low"
  /\ Len(tasks) = 2
  /\ tasks[1].status = "done" /\ tasks[1].priority = "low"
  /\ board.in_progress = <<tasks[2]>>
  /\ board.todo = <<>> /\ board.done = <<>>

\* C25: the request of updateTask carries the fields of the patch that are
\* not undefined, except assigneeId, with the values of the patch, and
\* updatedAt set to the time of the call; it carries an assignee exactly
\* when the patch has a non-empty assigneeId; it carries nothing else.
C25_UpdateRequestFields ==
  [][(last.kind = "form" /\ Handled("call") /\ last'.op = "update")
       => LET patch == last.resp
              body == net'[Len(net')].body
              given == {f \in DOMAIN patch \ {"assigneeId"} : patch[f] # Undefined}
              assigned == /\ "assigneeId" \in DOMAIN patch
                          /\ patch.assigneeId \notin {Undefined, ""}
          IN  /\ DOMAIN body
                   = given \cup {"updatedAt"} \cup (IF assigned THEN {"assignee"} ELSE {})
              /\ \A f \in given : body[f] = patch[f]
              /\ body.updatedAt = Len(net')
              /\ "assigneeId" \notin DOMAIN body
              /\ "assignee" \in DOMAIN body <=> assigned]_vars

\* An update has been sent with a status and the snapshot of the user the
\* patch named, and no assigneeId.
C25_Witness ==
  /\ last.kind = "call" /\ last.op = "update"
  /\ Len(net) = 1
  /\ DOMAIN net[1].body = {"status", "assignee", "updatedAt"}
  /\ net[1].body.assignee = users[4]

\* The user of the built-in list with the given id, the first user of the
\* list when there is none.
UserOrFirst(userId) ==
  IF userId \in {users[k].id : k \in DOMAIN users}
    THEN CHOOSE u \in {users[k] : k \in DOMAIN users} : u.id = userId
    ELSE users[1]

\* C30: createTask sends as assignee the user whose id is the assigneeId of
\* the form value, and the first user of the list, user-001, when no user
\* has that id; updateTask does the same for the assigneeId of a patch that
\* names one.
C30_AssigneeFallback ==
  [][(last.kind = "form" /\ Handled("call"))
       => LET taskData == last.resp
              body == net'[Len(net')].body
          IN  /\ users[1].id = "user-001"
              /\ last'.op = "create"
                   => body.assignee = UserOrFirst(taskData.assigneeId)
              /\ (/\ last'.op = "update"
                  /\ "assigneeId" \in DOMAIN taskData
                  /\ taskData.assigneeId \notin {Undefined, ""})
                   => body.assignee = UserOrFirst(taskData.assigneeId)]_vars

\* A task has been posted for an assignee no user has the id of, with
\* user-001 as its assignee.
C30_Witness ==
  /\ last.kind = "call" /\ last.op = "create"
  /\ Len(net) = 1
  /\ net[1].body.assigneeId = "user-999"
  /\ net[1].body.assignee.id = "user-001"

\* C26: the delivery of a successful getTasks response makes Store.tasks
\* the returned list, in its order, cut down to the tasks whose title or
\* description contains the requested search string whatever the case (the
\* whole list when the search is empty); what the store held before is gone
\* unless the list has it.
C26_RefreshReplaces ==
  [][(Handled("ok") /\ last'.op = "list")
       => LET r == net[last'.seq]
          IN  /\ tasks' = SelectSeq(r.resp, LAMBDA task :
                                      Satisfies(task, "all", "all", r.search))
              /\ r.search = "" => tasks' = r.resp]_vars

\* A store holding the two seed tasks has taken over a returned list of two
\* other tasks, of which only the second contains the search string.
C26_Witness ==
  /\ last.kind = "ok" /\ last.op = "list"
  /\ searchQuery = "A"
  /\ Len(last.resp) = 2
  /\ last.resp[1] # last.resp[2]
  /\ tasks = <<last.resp[2]>>
  /\ \A k \in DOMAIN SeedTasks : SeedTasks[k] # tasks[1]

\* C27: loading is true exactly in the states in which a request of
\* getTasks, createTask, updateTask or deleteTask is still in flight.
C27_LoadingIffInFlight ==
  loading <=> InFlight # {}

\* C28: when the successful response of a getTasks call is delivered while
\* the successful response of an earlier getTasks call is still on its way,
\* the later delivery of the earlier call's response leaves Store.tasks as
\* the later call's result.
C28_LaterRefreshWins ==
  [][\A i, j \in DOMAIN net :
       (/\ i < j
        /\ Handled("ok") /\ last'.seq = j
        /\ net[j].op = "list"
        /\ net[i].op = "list" /\ net[i].st = "served" /\ net[i].code = 200)
         => HandleNext([tasks |-> tasks', loading |-> loading', error |-> error'],
                       net[i]).tasks = tasks']_vars

\* C29: when nothing is in flight, no error is recorded and the last thing
\* the service handled is the successful response of the refresh issued last
\* of all requests, every task of the repository that passes the current
\* status, priority and search filters has a card in one of the three
\* buckets, also after the header changed or cleared the search string.
C29_BoardShowsAllMatching ==
  (/\ InFlight = {} /\ error = Null
   /\ last.kind = "ok" /\ last.op = "list" /\ last.seq = Len(net))
    => \A k \in DOMAIN db :
         Satisfies(db[k], statusFilter, priorityFilter, searchQuery)
           => db[k].id \in Ids(AllBuckets)

====
